---- MODULE Spec2Model ----
(***************************************************************************)
(* pget: installation and update engine.                                   *)
(*                                                                         *)
(* The model follows the command handlers of app/commands (install.run,    *)
(* remove.run, update.run, update_pget_self) and the primitives they call  *)
(* (Installer, install_as_script, GitHubFetcher) over an abstract disk:    *)
(* per package, the executable in the system and in the user bin           *)
(* directory, the metadata record, the helper directory with its docs,     *)
(* the script tree and the download cache.                                 *)
(*                                                                         *)
(* A version string is a sequence of tokens: <<"v", "1.2.0">> is "v1.2.0", *)
(* <<"1.2.0">> is "1.2.0", <<"main">> is the branch ref and <<>> is        *)
(* None / the empty string (both falsy in the source).                     *)
(***************************************************************************)
EXTENDS Naturals, Sequences, FiniteSets, TLC

\* ------------------------------------------------------------------ bounds
\* Largest number of names in one install / remove command line.
MaxBatch == 2

\* ------------------------------------------------------------------ names
\* The installable packages of the organisation.
Pkgs == {"pget", "foo", "bar", "baz"}
\* "web" is a repository of the organisation without the .program marker,
\* "nope" is no repository of the organisation.
Names == Pkgs \cup {"web", "nope"}

None == <<>>
MAIN == <<"main">>
UNKNOWN == <<"unknown">>

\* ------------------------------------------------------------ version text
\* str.startswith('v')
StartsWithV(s) == Len(s) > 0 /\ s[1] = "v"

\* f"v{x}" if not x.startswith('v') else x      (install.py:164, fetcher.py:89,164)
TagForm(s) == IF StartsWithV(s) THEN s ELSE <<"v">> \o s

\* version[1:] when it starts with 'v'          (metadata.py:57-59)
StripV(s) == IF StartsWithV(s) THEN Tail(s) ELSE s

\* str.lstrip('v'): every leading 'v' is removed (update.py:38)
RECURSIVE LStripV(_)
LStripV(s) == IF StartsWithV(s) THEN LStripV(Tail(s)) ELSE s

\* ------------------------------------------------------------ the catalog
\* Release tags published per package: foo and pget publish releases with
\* an asset for the host platform, baz one release without such an asset,
\* bar none at all.
Releases(p) ==
    CASE p = "foo"  -> {<<"v", "1.2.0">>}
      [] p = "pget" -> {<<"v", "1.2.0">>}
      [] p = "baz"  -> {<<"v", "1.0.0">>}
      [] OTHER      -> {}

\* GET /releases/latest: the tag of the latest release, None when there is none.
LatestTag(p) ==
    CASE p = "foo"  -> <<"v", "1.2.0">>
      [] p = "pget" -> <<"v", "1.2.0">>
      [] p = "baz"  -> <<"v", "1.0.0">>
      [] OTHER      -> None

\* Does the release carry the asset <package>-<host platform>?
HasAsset(p, tag) == p \in {"foo", "pget"}

\* The repository exists in the organisation.
RepoExists(n) == n # "nope"

\* The repository carries the .program marker file.
HasMarker(n) == n \in Pkgs

\* Refs for which the tarball endpoint answers: the branch and every tag.
RefExists(p, ref) == ref = MAIN \/ ref \in Releases(p)

\* The source tree of a ref: does it carry MODULE.bazel / BUILD, and the
\* VERSION of its doc/<app>.yaml (None: no doc directory).  The tree of
\* baz's release has neither.
TreeHasBuildFile(p, ref) == ~(p = "baz" /\ ref = <<"v", "1.0.0">>)
TreeDocVersion(p, ref) ==
    IF p = "baz" /\ ref = <<"v", "1.0.0">> THEN None
    ELSE IF ref = MAIN THEN <<"1.3.0">>
    ELSE IF ref = <<"local">> THEN <<"1.0.0">>
    ELSE StripV(ref)

\* The version of the running pget (app/__init__.py __version__).
PGET_VERSION == <<"1.0.0">>

\* ---------------------------------------------------------------- the disk
\* A file at an executable path.
\*   kind: "none" | "binary" (release asset) | "built" (bazel artifact)
\*         | "wrapper" (script launcher) | "partial" (truncated write)
\*   ver : the version the content was taken from
\*   x   : the executable bits are set
NoFile == [kind |-> "none", ver |-> None, x |-> FALSE]
File(k, v) == [kind |-> k, ver |-> v, x |-> TRUE]
Exists(f) == f.kind # "none"

\* The metadata record .pget-metadata.json
NoMeta == [ver |-> None, platform |-> "none"]
HasMeta(d) == d.meta.platform # "none"

\* One package's part of the disk.
\*   sys, user : /usr/local/bin/<app>, ~/.pget/bin/<app>
\*   meta      : ~/.pget/helpers/<app>/.pget-metadata.json
\*   helper    : ~/.pget/helpers/<app>/ exists
\*   doc       : VERSION of ~/.pget/helpers/<app>/doc/<app>.yaml, None if absent
\*   script    : ref of the tree in ~/.pget/script/<app>, None if absent
\*   files     : files of the download cache $TMP/pget/<app>/
\*   src       : refs whose trees lie extracted under $TMP/pget/<app>/src
\*   backup    : the sibling file pget.old (self-update only)
EmptyPkg ==
    [sys |-> NoFile, user |-> NoFile, meta |-> NoMeta, helper |-> FALSE,
     doc |-> None, script |-> None, files |-> {}, src |-> {}, backup |-> NoFile]

\* paths.find_existing_binary: the system path is preferred.
find_existing_binary(d) ==
    IF Exists(d.sys) THEN "sys" ELSE IF Exists(d.user) THEN "user" ELSE "none"

\* Installer.is_installed
is_installed(d) == find_existing_binary(d) # "none"

\* metadata.get_package_version: the record's version without a leading 'v',
\* else the VERSION of the installed doc file, else 'unknown'.
get_package_version(d) ==
    IF HasMeta(d) THEN StripV(d.meta.ver)
    ELSE IF d.doc # None THEN d.doc ELSE UNKNOWN

\* metadata.save_package_info
save_package_info(d, version, platform) ==
    [d EXCEPT !.meta = [ver |-> version, platform |-> platform], !.helper = TRUE]

\* Installer.install_doc_files: copies <source>/doc when the tree has one.
install_doc_files(d, docver) ==
    IF docver = None THEN d ELSE [d EXCEPT !.helper = TRUE, !.doc = docver]

\* script_installer.uninstall_script
uninstall_script(d) == [d EXCEPT !.script = None]

\* Installer.uninstall past its guard: unlink the binary found, remove the
\* helper directory (docs, record), the script tree and the download cache.
uninstall(d) ==
    LET loc == find_existing_binary(d)
        d1  == IF loc = "sys" THEN [d EXCEPT !.sys = NoFile]
               ELSE IF loc = "user" THEN [d EXCEPT !.user = NoFile] ELSE d
    IN IF loc = "none" THEN d
       ELSE uninstall_script(
              [d1 EXCEPT !.meta = NoMeta, !.helper = FALSE, !.doc = None,
                         !.files = {}, !.src = {}])


\* Installer._try_copy: the copy lands and is made executable, or a
\* PermissionError leaves the destination as it was (and False is returned).
try_copy(d, loc, f, ok) == IF ok THEN [d EXCEPT ![loc] = f] ELSE d

\* install_binary without the fallback: a denied system copy is not followed
\* by the copy into the user bin directory.
install_binary_nofallback(d, f, version, platform, sysAv, userOK) ==
    LET d1 == IF sysAv # "unsupported" THEN try_copy(d, "sys", f, sysAv = "ok") ELSE d
        d2 == IF sysAv = "unsupported" THEN try_copy(d1, "user", f, userOK) ELSE d1
    IN save_package_info(d2, version, platform)

\* Installer.install_binary.  sysAv is the outcome the system bin directory
\* offers: "ok", "denied" (PermissionError) or "unsupported" (SYSTEM_BIN is
\* None); userOK is whether the copy into ~/.pget/bin is permitted.  The
\* method returns True on every path.
install_binary(d, f, version, platform, sysAv, userOK) ==
    LET d1   == IF sysAv # "unsupported" THEN try_copy(d, "sys", f, sysAv = "ok") ELSE d
        dest == IF sysAv = "ok" THEN "sys" ELSE "user"
        d2   == IF dest = "user" THEN try_copy(d1, "user", f, userOK) ELSE d1
    IN save_package_info(d2, version, platform)

\* install_with_bazel without the look for MODULE.bazel / BUILD.
install_with_bazel_ret_nocheck(hasBuildFile, bazel, build) ==
    bazel /\ build = "ok"

\* Installer.install_with_bazel: its return value.  build is the outcome of
\* the bazel run: "ok", "fail" (CalledProcessError) or "noartifact".
install_with_bazel_ret(hasBuildFile, bazel, build) ==
    hasBuildFile /\ bazel /\ build = "ok"

\* Installer.install_with_bazel: its effect on the disk.
install_with_bazel(d, f, docver, version, platform, hasBuildFile, bazel, build, sysAv, userOK) ==
    IF ~install_with_bazel_ret(hasBuildFile, bazel, build) THEN d
    ELSE LET d1   == IF sysAv # "unsupported" THEN try_copy(d, "sys", f, sysAv = "ok") ELSE d
             dest == IF sysAv = "ok" THEN "sys" ELSE "user"
             d2   == IF dest = "user" THEN try_copy(d1, "user", f, userOK) ELSE d1
         IN save_package_info(install_doc_files(d2, docver), version, platform)

\* script_installer.install_as_script.  srcThere: the source directory still
\* exists once the old script tree has been removed (it does not when the
\* source directory is the script tree itself); without it copytree raises.
install_as_script_raises(srcThere) == ~srcThere

\* install_as_script that copies the tree and records it, but writes no
\* wrapper into the user bin directory.
install_as_script_nowrapper(d, tree, docver, version, srcThere) ==
    LET d1 == [d EXCEPT !.script = None]
    IN IF install_as_script_raises(srcThere) THEN d1
       ELSE save_package_info(
              install_doc_files([d1 EXCEPT !.script = tree], docver),
              version, "script")

install_as_script(d, tree, docver, version, srcThere) ==
    LET d1 == [d EXCEPT !.script = None]
    IN IF install_as_script_raises(srcThere) THEN d1
       ELSE save_package_info(
              install_doc_files(
                [d1 EXCEPT !.script = tree, !.user = File("wrapper", tree)],
                docver),
              version, "script")

\* ---------------------------------------------------------------- fetcher
\* GitHubFetcher.get_release_by_tag: the tag gets its 'v' and is looked up.
get_release_by_tag(p, tag) ==
    IF TagForm(tag) \in Releases(p) THEN TagForm(tag) ELSE None

\* download_binary reporting the release's version without its 'v'.
download_binary_stripped(p, version, dl) ==
    LET release == IF version # None THEN get_release_by_tag(p, version)
                   ELSE LatestTag(p)
    IN IF release = None THEN [path |-> FALSE, tag |-> None]
       ELSE [path |-> HasAsset(p, release) /\ dl, tag |-> StripV(release)]

\* GitHubFetcher.download_binary: [path, tag].  path says whether the asset
\* was fetched; tag is the release's tag_name (None without a release).
\* dl: the download of the asset goes through.
download_binary(p, version, dl) ==
    LET release == IF version # None THEN get_release_by_tag(p, version)
                   ELSE LatestTag(p)
    IN IF release = None THEN [path |-> FALSE, tag |-> None]
       ELSE [path |-> HasAsset(p, release) /\ dl, tag |-> release]

\* download_source without the fallback to the branch: without a version it
\* takes the latest release only, unless edge mode asks for the branch.
download_source_release_only(p, edge, version, dl, dlMain) ==
    LET tag    == TagForm(version)
        latest == LatestTag(p)
    IN IF version # None
         THEN IF RefExists(p, tag) /\ dl
                THEN [ok |-> TRUE, ref |-> tag, tag |-> tag]
                ELSE [ok |-> FALSE, ref |-> None, tag |-> None]
       ELSE IF ~edge
         THEN IF latest # None /\ dl
                THEN [ok |-> TRUE, ref |-> latest, tag |-> latest]
                ELSE [ok |-> FALSE, ref |-> None, tag |-> None]
       ELSE IF dlMain
         THEN [ok |-> TRUE, ref |-> MAIN, tag |-> MAIN]
       ELSE [ok |-> FALSE, ref |-> None, tag |-> None]

\* GitHubFetcher.download_source: [ok, ref, tag].  ref is the ref whose
\* tarball was written to the cache, tag the version it reports.
\* dl: the download of the tag's tarball goes through; dlMain: the download
\* of the branch tarball goes through.
download_source(p, edge, version, dl, dlMain) ==
    LET tag    == TagForm(version)
        latest == LatestTag(p)
    IN IF version # None
         THEN IF RefExists(p, tag) /\ dl
                THEN [ok |-> TRUE, ref |-> tag, tag |-> tag]
                ELSE [ok |-> FALSE, ref |-> None, tag |-> None]
       ELSE IF ~edge /\ latest # None /\ dl
         THEN [ok |-> TRUE, ref |-> latest, tag |-> latest]
       ELSE IF dlMain
         THEN [ok |-> TRUE, ref |-> MAIN, tag |-> MAIN]
       ELSE [ok |-> FALSE, ref |-> None, tag |-> None]

\* The cache after download_app_directory: the tarball is written and its
\* tree extracted beside the trees of earlier fetches.
cache_source(d, p, s) ==
    IF s.ok THEN [d EXCEPT !.files = @ \cup {<<"tar", s.ref>>}, !.src = @ \cup {s.ref}]
    ELSE d

\* The cache after a binary download.
cache_binary(d, b) ==
    IF b.path THEN [d EXCEPT !.files = @ \cup {<<"asset", b.tag>>}] ELSE d

\* download_app_directory returns children[0], the first directory that
\* iterdir() lists under src/: any of the extracted trees.
extracted_trees(d) == d.src


\* --------------------------------------------------- security: manifests
\* A value of a JSON document under `assets`: a string, given as the
\* sequence of its parts, or a value that is no string (a number).
Str(s) == [isstr |-> TRUE, s |-> s]
NotStr == [isstr |-> FALSE, s |-> <<>>]

\* Parts of strings.  A member of Hex64 stands for a run of 64 lowercase hex
\* characters, "H1" for the run "h1" in upper case, "nl" for a line feed.
Hex64 == {"h1", "h2"}

\* File contents, and a path with no readable file behind it.
Contents == {"c1", "c2"}
Files == Contents \cup {"nofile"}

\* hashlib.sha256 over the content, hexdigest(): lowercase hex, a different
\* digest for different contents.
sha256(c) == IF c = "c1" THEN <<"h1">> ELSE <<"h2">>

\* A string of exactly 64 lowercase hex characters.
IsHexDigest(s) == Len(s) = 1 /\ s[1] \in Hex64

\* SHA256_RE.match(s) with SHA256_RE = ^[a-f0-9]{64}$: in Python `$` matches
\* at the end of the string and also just before a line feed that ends it.
SHA256_RE_match(s) ==
    /\ Len(s) \in {1, 2}
    /\ s[1] \in Hex64
    /\ Len(s) = 2 => s[2] = "nl"

\* Asset names and the values a manifest may give them.
AssetNames == {"foo-linux-x86_64", "foo-darwin-arm64"}
DigestValues ==
    {Str(<<"h1">>), Str(<<"h2">>), Str(<<"h1", "nl">>), Str(<<"H1">>),
     Str(<<>>), NotStr}
NoMap == [n \in {} |-> NotStr]
AssetMaps == UNION {[D -> DigestValues] : D \in SUBSET AssetNames}

\* The content of a manifest file:
\*   json  : "invalid" (json.loads raises) | "array" (parses to a value that
\*           is no dict) | "object"
\*   assets: "missing" | "notmap" (present, no dict) | "map"
\*   map   : the entries of the assets mapping (keys of a JSON object are
\*           strings)
Manifest(json, assets, map) == [json |-> json, assets |-> assets, map |-> map]
ManifestObjects ==
    {Manifest("object", "missing", NoMap), Manifest("object", "notmap", NoMap)}
      \cup {Manifest("object", "map", m) : m \in AssetMaps}
Manifests ==
    {Manifest("invalid", "missing", NoMap), Manifest("array", "missing", NoMap)}
      \cup ManifestObjects

\* The schema check with the emptiness of `assets` not looked at.
validate_manifest_schema_allows_empty(m) ==
    /\ m.json = "object"
    /\ m.assets # "notmap"
    /\ \A n \in DOMAIN m.map : m.map[n].isstr /\ SHA256_RE_match(m.map[n].s)

\* manifest._validate_manifest_schema: TRUE when it returns, FALSE when it
\* raises ManifestError.
validate_manifest_schema(m) ==
    /\ m.json = "object"
    /\ m.assets = "map"
    /\ DOMAIN m.map # {}
    /\ \A n \in DOMAIN m.map : m.map[n].isstr /\ SHA256_RE_match(m.map[n].s)

\* bool(v) of a value found under an asset name: the empty string is falsy.
truthy(v) == v # Str(<<>>)

\* The asset check passing whenever the manifest has no entry for the name.
ensure_asset_checksum_skips_unlisted(m, name, file) ==
    IF m.assets = "notmap" THEN "AttributeError"
    ELSE IF name \notin DOMAIN m.map \/ ~truthy(m.map[name]) THEN "ok"
    ELSE IF file = "nofile" THEN "OSError"
    ELSE IF Str(sha256(file)) # m.map[name] THEN "ManifestError"
    ELSE "ok"

\* manifest.ensure_asset_checksum on a manifest dict: "ok" when it returns,
\* else the exception it raises.
ensure_asset_checksum(m, name, file) ==
    IF m.assets = "notmap" THEN "AttributeError"
    ELSE IF name \notin DOMAIN m.map \/ ~truthy(m.map[name]) THEN "ManifestError"
    ELSE IF file = "nofile" THEN "OSError"
    ELSE IF Str(sha256(file)) # m.map[name] THEN "ManifestError"
    ELSE "ok"

\* -------------------------------------------------- security: signatures
\* The *.asc files that may lie in TRUSTED_KEYS_DIR: the public key k1, and
\* a file gpg cannot import.
KeyFiles == {"k1", "junk"}

\* Who made the detached signature: the holder of the bundled key k1, the
\* holder of a key kx that is not bundled, or nobody (no signature of the
\* data at all).
Signers == {"k1", "kx", "nobody"}

\* The key stores of the host outside pget: the gpg home directory
\* (~/.gnupg with its trustdb), the keys of its default keyring, and the
\* keys of the keyrings its gpg.conf names with `keyring`.
Ambient(home, ring, conf) == [home |-> home, ring |-> ring, conf |-> conf]
Ambients ==
    {Ambient(FALSE, {}, {})}
      \cup {Ambient(TRUE, r, c) : r \in SUBSET {"kx"}, c \in SUBSET {"kx"}}

\* The temporary directory with the keyring trusted.gpg.
NoTmp == [exists |-> FALSE, keys |-> {}]

\* The options of the two gpg command lines (pgp.py:62-71, 82-93).
IMPORT_ARGS == {"--batch", "--no-tty", "--no-default-keyring", "--keyring", "--import"}
VERIFY_ARGS == {"--batch", "--no-tty", "--status-fd", "--no-default-keyring",
                "--keyring", "--verify"}

\* The keys gpg looks signatures up in: the keyring given with --keyring,
\* the default keyring unless --no-default-keyring, and the keyrings of the
\* gpg.conf in its home directory unless --no-options or another --homedir
\* is given.
gpg_keyrings(args, keyring, amb) ==
    keyring
      \cup (IF "--no-default-keyring" \in args THEN {} ELSE amb.ring)
      \cup (IF "--no-options" \in args \/ "--homedir" \in args THEN {} ELSE amb.conf)

\* The home directory after a gpg run: gpg creates it, with a trustdb, when
\* it is not there, unless another --homedir is given.
gpg_home(args, amb) ==
    IF "--homedir" \in args THEN amb ELSE [amb EXCEPT !.home = TRUE]

\* The host before any call, and no call running.
\*   fn : "none" | "verify_manifest" | "ensure_asset_checksum"
\*   pc : "idle" | "v_import" | "v_verify" | "v_parse" | "returned" | "raised"
\*   sig: "none" (gpg --verify not run) | "valid" | "invalid"
\*   fp : the fingerprint taken from the VALIDSIG line
\*   used: the keys the signature was looked up in
\*   amb0: the ambient stores when the call was entered
NoHost == [gpg |-> TRUE, keys |-> [exists |-> TRUE, files |-> {"k1"}],
           amb |-> Ambient(FALSE, {}, {}), tmp |-> NoTmp]
NoVf == [fn |-> "none", pc |-> "idle", manifest |-> Manifest("invalid", "missing", NoMap),
         signer |-> "nobody", asset |-> "none", file |-> "nofile",
         sig |-> "none", parsed |-> FALSE, fp |-> "none", used |-> {},
         err |-> "none", amb0 |-> Ambient(FALSE, {}, {})]

\* ------------------------------------------------------------------ state
\* ------------------------------------------------ the downloads of one run
\* GitHubFetcher._download_file: the URL is opened and the response written
\* to dest_path whether or not dest_path is there already (exists); dl: the
\* transfer goes through.  net says whether the network was used.
download_file(exists, dl) == [net |-> TRUE, ok |-> dl]

\* What one GitHubFetcher has done so far:
\*   seen : the cache files it has downloaded since the process started
\*   file : the cache file the last call downloaded, None when none came
\*   again: that file had been downloaded by this fetcher before and its
\*          cache entry was still there when the call was made
\*   net  : the last call took the file from the network
NoFt == [seen |-> {}, file |-> None, again |-> FALSE, net |-> FALSE]

\* ------------------------------------------------- the legacy command line
\* Largest number of repositories in the organisation's listing.
MaxRepos == 3

\* Repository names, as the sequence of their characters: the empty name,
\* a name with a leading dot, names with a dot inside, upper and lower case.
RepoNames ==
    {<<>>, <<".", "g">>, <<"p">>, <<"p", ".", "y">>, <<"y">>, <<"Z">>}

\* ord(c) of the characters of RepoNames.
CodePoint(c) ==
    CASE c = "." -> 46 [] c = "Z" -> 90 [] c = "g" -> 103
      [] c = "p" -> 112 [] OTHER -> 121

\* a < b for str: the first differing character decides, a proper prefix
\* is smaller.
RECURSIVE str_lt(_, _)
str_lt(a, b) ==
    IF b = <<>> THEN FALSE
    ELSE IF a = <<>> THEN TRUE
    ELSE IF a[1] # b[1] THEN CodePoint(a[1]) < CodePoint(b[1])
    ELSE str_lt(Tail(a), Tail(b))

\* sorted(names) for a list of str.
RECURSIVE insert_sorted(_, _)
insert_sorted(n, s) ==
    IF s = <<>> THEN <<n>>
    ELSE IF str_lt(n, s[1]) THEN <<n>> \o s
    ELSE <<s[1]>> \o insert_sorted(n, Tail(s))

RECURSIVE sorted(_)
sorted(s) == IF s = <<>> THEN <<>> ELSE insert_sorted(s[1], sorted(Tail(s)))

\* An element of the JSON array the API answers with: an object with a
\* name, an object without the key name, or a value that is no object.
Item(k, n) == [kind |-> k, name |-> n]
Items ==
    {Item("dict", n) : n \in RepoNames}
      \cup {Item("noname", <<>>), Item("nodict", <<>>)}

\* The listings: up to MaxRepos elements, no element twice.
Listings ==
    UNION {{s \in [1..k -> Items] : \A i, j \in 1..k : s[i] = s[j] => i = j}
             : k \in 0..MaxRepos}

\* What _http_get hands back: the status (0 when the request failed with
\* URLError) and the body: a JSON array, another JSON document, text that
\* is no JSON, or nothing; or the exception it lets through.
Response(st, js, items) == [status |-> st, json |-> js, items |-> items]
Responses ==
    {Response(200, "array", s) : s \in Listings}
      \cup {Response(200, js, <<>>) : js \in {"object", "garbage", "empty"}}
      \cup {Response(st, "array", s) : st \in {403}, s \in {t \in Listings : Len(t) = 1}}
      \cup {Response(0, "empty", <<>>), Response(0, "raised", <<>>)}

\* Every name of the listing shown but the empty one.
visible_with_dot(n) == n # <<>>

\* core.py:164: `n and not n.startswith('.')`.
visible(n) == n # <<>> /\ n[1] # "."

\* core.py:162: item.get("name", "") of the elements that are dicts.
RECURSIVE names_of(_)
names_of(items) ==
    IF items = <<>> THEN <<>>
    ELSE LET it == items[1] IN
         (IF it.kind = "dict" THEN <<it.name>>
          ELSE IF it.kind = "noname" THEN << <<>> >>
          ELSE <<>>) \o names_of(Tail(items))

\* core.py:164: the names kept, in the order of the listing.
RECURSIVE keep_visible(_)
keep_visible(names) ==
    IF names = <<>> THEN <<>>
    ELSE (IF visible(names[1]) THEN <<names[1]>> ELSE <<>>)
           \o keep_visible(Tail(names))

\* core.list_cloud_apps on the response r of _http_get: the sorted visible
\* names of a 200 answer that parses; [] for every other answer.
list_cloud_apps(r) ==
    IF r.status = 200 /\ r.json # "empty"
      THEN IF r.json = "array" THEN sorted(keep_visible(names_of(r.items)))
           ELSE <<>>
      ELSE <<>>

\* No list command has run.
NoLs == [pc |-> "idle", resp |-> Response(0, "empty", <<>>), out |-> <<>>, rc |-> 0]

VARIABLES
    fs,         \* the disk: package -> its files
    scn,        \* the package the commands of this run are about
    pc,         \* where the running command stands; "idle" between commands
    op,         \* the running command: its name, flags and caller
    remaining,  \* names of the command line not yet reached
    cur,        \* the name being processed: app, requested version, outcome
    overall,    \* overall_success of the running command
    result,     \* how the last command ended: "ok", "fail" or "crash"
    pre,        \* the disk when the current name (or self-update) was entered
    ev,         \* the last placement made by an installer primitive
    su,         \* self-update: what has happened on its path so far
    host,       \* signature verification: gpg, the bundled keys, the key stores
    vf,         \* the running call into app/security: inputs, position, outcome
    ft,         \* the fetcher of one process run: what it has downloaded
    ls          \* the legacy `list -u` command: the response, output, exit code

\* The state of the commands, the state of the security helpers, which no
\* command calls, and the state the commands leave alone: the security
\* helpers, the downloads of one fetcher looked at on their own, and the
\* legacy command line.
cmdvars == <<fs, scn, pc, op, remaining, cur, overall, result, pre, ev, su>>
secvars == <<host, vf>>
libvars == <<host, vf, ft, ls>>
vars == <<fs, scn, pc, op, remaining, cur, overall, result, pre, ev, su, host, vf,
          ft, ls>>

NoOp  == [cmd |-> "none", script |-> FALSE, build |-> FALSE, edge |-> FALSE,
          caller |-> "top"]
\* The loop body's locals, and what it has looked up and asked so far:
\*   bin   : "none" (download_binary not called) | "found" | "notfound"
\*   binTag: the tag of the release whose asset was fetched
\*   src   : "none" (download_app_directory not called) | "ok" | "fail"
\*   srcRef: the ref whose tarball was fetched
\*   bazel : "none" (shutil.which not asked) | "yes" | "no"
\*   ans   : "none" (no prompt shown) or the answer the prompt got
\*   build : "none" (bazel not run) or the outcome of the bazel run
NoCur == [app |-> "none", reqv |-> None, ok |-> "none", tree |-> None, tag |-> None,
          bin |-> "none", binTag |-> None, src |-> "none", srcRef |-> None,
          bazel |-> "none", ans |-> "none", build |-> "none"]
NoEv  == [app |-> "none", how |-> "none", sysAv |-> "none", userOK |-> FALSE,
          ret |-> FALSE, genuine |-> TRUE]
NoSu  == [target |-> None, loc |-> "none", new |-> NoFile, binDl |-> "none",
          srcDl |-> "none", copy |-> "none", restore |-> "none", rm |-> "none"]

\* Versions a caller may ask for with name@version.
ReqVersions == {None, <<"1.2.0">>, <<"v", "1.2.0">>, <<"9.9.9">>}

\* Answers the script-fallback prompt can get: text, a closed input stream
\* (EOFError) or an interrupt (KeyboardInterrupt).
Answers == {"y", "yes", "n", "other", "eof", "interrupt"}

\* Every answer but a plain no taken as consent.
accepts_unless_no(ans) == ans # "n"

\* An interrupt at the prompt taken as consent.
accepts_on_interrupt(ans) == ans \in {"y", "yes", "interrupt"}

\* response in ('y', 'yes')                       (install.py:130,301)
accepts(ans) == ans \in {"y", "yes"}

SysOutcomes == {"ok", "denied", "unsupported"}
BuildOutcomes == {"ok", "fail", "noartifact"}

\* core/config.py IGNORED_REPOS
IGNORED_REPOS == {"site"}

\* The names the commands of a run are given: the package the run is about
\* and the names that are no installable package.
InstallNames == {scn} \cup (Names \ Pkgs) \cup IGNORED_REPOS
RemoveNames == {scn} \cup (Names \ Pkgs)

Init ==
    /\ fs = [p \in Pkgs |-> EmptyPkg]
    /\ scn \in Pkgs
    /\ pc = "idle"
    /\ op = NoOp
    /\ remaining = 0
    /\ cur = NoCur
    /\ overall = TRUE
    /\ result = "none"
    /\ pre = [p \in Pkgs |-> EmptyPkg]
    /\ ev = NoEv
    /\ su = NoSu
    /\ host = NoHost
    /\ vf = NoVf
    /\ ft = NoFt
    /\ ls = NoLs

\* An exception leaves run(): main() reports it and the command is over.
Raise ==
    /\ pc' = "done"
    /\ result' = "crash"

\* `continue`: the name is done, with the locals c and the outcome given;
\* after the last name run returns overall_success (install.py:341).
NextNameWith(c, ok) ==
    /\ cur' = [c EXCEPT !.ok = IF ok THEN "ok" ELSE "fail"]
    /\ overall' = (overall /\ ok)
    /\ IF remaining = 0
         THEN pc' = "done" /\ result' = IF overall /\ ok THEN "ok" ELSE "fail"
         ELSE pc' = "i_next" /\ UNCHANGED result

NextName(ok) == NextNameWith(cur, ok)


\* ------------------------------------------------------------ install.run
\* install.run up to the loop: the flags are taken from the arguments.
InstallBegin ==
    /\ pc = "idle"
    /\ \E script \in BOOLEAN, build \in BOOLEAN, edge \in BOOLEAN, n \in 1..MaxBatch :
         /\ op' = [cmd |-> "install", script |-> script, build |-> build,
                   edge |-> edge, caller |-> "top"]
         /\ IF script /\ build
              THEN /\ pc' = "done"
                   /\ result' = "fail"
                   /\ remaining' = 0
              ELSE /\ pc' = "i_next"
                   /\ result' = "none"
                   /\ remaining' = n
    /\ overall' = TRUE
    /\ cur' = NoCur
    /\ ev' = NoEv
    /\ su' = NoSu
    /\ pre' = fs
    /\ UNCHANGED <<fs, scn>>
    /\ UNCHANGED libvars

\* The loop head: the next name of the command line is unpacked.
InstallNext ==
    /\ pc = "i_next"
    /\ remaining > 0
    /\ \E name \in InstallNames, v \in ReqVersions :
         /\ op.caller = "selfupdate" => (name = "pget" /\ v = None)
         /\ op.caller = "update" => (name = scn /\ v = None)
         /\ name \notin Pkgs => v \in {None, <<"1.2.0">>}
         /\ cur' = [NoCur EXCEPT !.app = name, !.reqv = v]
    /\ remaining' = remaining - 1
    /\ pre' = IF op.caller = "top" THEN fs ELSE pre
    /\ ev' = NoEv
    /\ pc' = "i_check"
    /\ UNCHANGED <<fs, scn, op, overall, result, su>>
    /\ UNCHANGED libvars

\* The already-installed handling with a reinstall when no version is asked.
when_installed_reinstalls(reqv, current) ==
    IF reqv # None
      THEN IF TagForm(reqv) = TagForm(current) THEN "same" ELSE "replace"
      ELSE "replace"

\* The already-installed handling with the versions compared as written.
when_installed_rawcompare(reqv, current) ==
    IF reqv # None
      THEN IF reqv = current THEN "same" ELSE "replace"
      ELSE "inform"

\* install.py:158-199: what is done about a package found installed at the
\* version current: "same" (the requested version is the installed one:
\* warn and fail), "replace" (uninstall and go on) or "inform" (no version
\* asked: tell about the latest release and fail).
when_installed(reqv, current) ==
    IF reqv # None
      THEN IF TagForm(reqv) = TagForm(current) THEN "same" ELSE "replace"
      ELSE "inform"

\* install.py:105-199: ignored repositories, the pget special case and the
\* handling of a package that is already installed.
InstallCheck ==
    /\ pc = "i_check"
    /\ LET app  == cur.app
           d    == IF app \in Pkgs THEN fs[app] ELSE EmptyPkg
           todo == when_installed(cur.reqv, get_package_version(d))
       IN IF app \in IGNORED_REPOS
            THEN NextName(FALSE) /\ UNCHANGED fs
          ELSE IF app = "pget"
            THEN pc' = "i_pget" /\ UNCHANGED <<fs, cur, overall, result>>
          ELSE IF ~is_installed(d)
            THEN pc' = "i_resolve" /\ UNCHANGED <<fs, cur, overall, result>>
          ELSE IF todo = "same"
            THEN NextName(FALSE) /\ UNCHANGED fs
          ELSE IF todo = "replace"
            THEN /\ fs' = [fs EXCEPT ![app] = uninstall(d)]
                 /\ pc' = "i_resolve"
                 /\ UNCHANGED <<cur, overall, result>>
          ELSE \* get_latest_release answers, or the request raises
               \/ NextName(FALSE) /\ UNCHANGED fs
               \/ Raise /\ UNCHANGED <<fs, cur, overall>>
    /\ UNCHANGED <<scn, op, remaining, pre, ev, su>>
    /\ UNCHANGED libvars

\* The binary path taken whatever the mode.
tries_binary_always(script, build) == TRUE

\* install.py:238: the binary path is taken unless script or build mode is
\* forced.
tries_binary(script, build) == ~script /\ ~build

\* Every repository of the organisation taken as installable.
installable_without_marker(found, marker) == found

\* install.py:211-228: a name goes on to the download only when
\* get_repo_info found the repository and the probe of its .program marker
\* file answered; HTTPError and URLError of the probe count as no marker.
installable(found, marker) == found /\ marker

\* install.py:211-228: the repository lookup and the .program marker probe.
InstallResolve ==
    /\ pc = "i_resolve"
    /\ \/ Raise /\ UNCHANGED <<cur, overall>>
       \/ /\ ~installable(RepoExists(cur.app), HasMarker(cur.app))
          /\ NextName(FALSE)
       \/ /\ installable(RepoExists(cur.app), HasMarker(cur.app))
          /\ pc' = IF tries_binary(op.script, op.build) THEN "i_binary" ELSE "i_source"
          /\ UNCHANGED <<cur, overall, result>>
    /\ UNCHANGED <<fs, scn, op, remaining, pre, ev, su>>
    /\ UNCHANGED libvars

\* A binary lookup without an asset ends the package as failed.
after_lookup_gives_up(found) == IF found THEN "binary" ELSE "fail"

\* install.py:241,266: an asset that came is installed; without one
\* `success` is still False and the source installation is entered.
after_lookup(found) == IF found THEN "binary" ELSE "source"

\* install.py:238-264: the release asset is fetched and, when it came,
\* installed together with the docs of the source snapshot.
InstallBinary ==
    /\ pc = "i_binary"
    /\ LET app == cur.app IN
       \/ Raise /\ UNCHANGED <<fs, cur, overall, ev>>
       \/ \E dl \in BOOLEAN, genuine \in BOOLEAN :
            LET b    == download_binary(app, cur.reqv, dl)
                then == after_lookup(b.path)
                miss == [cur EXCEPT !.bin = "notfound"]
            IN
            IF then = "source"
              THEN /\ genuine
                   /\ pc' = "i_source"
                   /\ cur' = miss
                   /\ UNCHANGED <<fs, overall, result, ev>>
            ELSE IF then = "fail"
              THEN /\ genuine
                   /\ NextNameWith(miss, FALSE)
                   /\ UNCHANGED <<fs, ev>>
            ELSE \E dls \in BOOLEAN, dlm \in BOOLEAN, sysAv \in SysOutcomes, userOK \in BOOLEAN :
                     LET s  == download_source(app, op.edge /\ cur.reqv = None, cur.reqv,
                                               dls, dlm)
                         d1 == cache_source(cache_binary(fs[app], b), app, s)
                         d2 == install_binary(d1, File("binary", b.tag), b.tag,
                                              "native", sysAv, userOK)
                     IN \E tree \in IF s.ok THEN extracted_trees(d1) ELSE {None} :
                          /\ fs' = [fs EXCEPT ![app] =
                                      IF s.ok THEN install_doc_files(d2, TreeDocVersion(app, tree))
                                      ELSE d2]
                          /\ ev' = [app |-> app, how |-> "binary", sysAv |-> sysAv,
                                    userOK |-> userOK, ret |-> TRUE, genuine |-> genuine]
                          /\ NextNameWith(
                               [cur EXCEPT !.bin = "found", !.binTag = b.tag,
                                           !.src = IF s.ok THEN "ok" ELSE "fail",
                                           !.srcRef = s.ref, !.tree = tree],
                               TRUE)
    /\ UNCHANGED <<scn, op, remaining, pre, su>>
    /\ UNCHANGED libvars

\* install.py:266-276: the source snapshot is fetched and extracted.
InstallFetchSource ==
    /\ pc = "i_source"
    /\ LET app == cur.app IN
       \/ Raise /\ UNCHANGED <<fs, cur, overall>>
       \/ \E dls \in BOOLEAN, dlm \in BOOLEAN :
            LET s  == download_source(app, op.edge /\ cur.reqv = None, cur.reqv, dls, dlm)
                d1 == cache_source(fs[app], app, s)
            IN IF ~s.ok
                 THEN NextNameWith([cur EXCEPT !.src = "fail"], FALSE) /\ UNCHANGED fs
                 ELSE \E tree \in extracted_trees(d1) :
                        /\ fs' = [fs EXCEPT ![app] = d1]
                        /\ cur' = [cur EXCEPT !.tree = tree, !.tag = s.tag,
                                              !.src = "ok", !.srcRef = s.ref]
                        /\ pc' = "i_strategy"
                        /\ UNCHANGED <<overall, result>>
    /\ UNCHANGED <<scn, op, remaining, pre, ev, su>>
    /\ UNCHANGED libvars

\* install.py:278-332: script mode, the prompt when bazel is missing, or the
\* bazel build.
InstallStrategy ==
    /\ pc = "i_strategy"
    /\ LET app    == cur.app
           d      == fs[app]
           docver == TreeDocVersion(app, cur.tree)
           script == install_as_script(d, cur.tree, docver, cur.tag, cur.tree \in d.src)
           scriptEv == [app |-> app, how |-> "script", sysAv |-> "unsupported",
                        userOK |-> TRUE, ret |-> TRUE, genuine |-> TRUE]
       IN IF op.script
            THEN /\ fs' = [fs EXCEPT ![app] = script]
                 /\ ev' = scriptEv
                 /\ NextName(TRUE)
            ELSE \E bazel \in BOOLEAN :
                   LET c == [cur EXCEPT !.bazel = IF bazel THEN "yes" ELSE "no"] IN
                   IF ~bazel
                     THEN IF op.build
                            THEN NextNameWith(c, FALSE) /\ UNCHANGED <<fs, ev>>
                            ELSE \E ans \in Answers :
                                   LET ca == [c EXCEPT !.ans = ans] IN
                                   IF accepts(ans)
                                     THEN /\ fs' = [fs EXCEPT ![app] = script]
                                          /\ ev' = scriptEv
                                          /\ NextNameWith(ca, TRUE)
                                     ELSE NextNameWith(ca, FALSE) /\ UNCHANGED <<fs, ev>>
                     ELSE \E build \in BuildOutcomes, sysAv \in SysOutcomes, userOK \in BOOLEAN :
                            LET hasBuild == cur.tree \in d.src /\ TreeHasBuildFile(app, cur.tree)
                                ret == install_with_bazel_ret(hasBuild, TRUE, build)
                            IN /\ fs' = [fs EXCEPT ![app] =
                                    install_with_bazel(d, File("built", cur.tree), docver,
                                                       cur.tag, "native", hasBuild, TRUE,
                                                       build, sysAv, userOK)]
                               /\ ev' = IF ret
                                          THEN [app |-> app, how |-> "build", sysAv |-> sysAv,
                                                userOK |-> userOK, ret |-> TRUE, genuine |-> TRUE]
                                          ELSE ev
                               /\ NextNameWith(
                                    [c EXCEPT !.build = IF hasBuild THEN build ELSE "none"],
                                    ret)
    /\ UNCHANGED <<scn, op, remaining, pre, su>>
    /\ UNCHANGED libvars


\* install.py:110-156: pget itself is installed from the source directory of
\* the running pget, Path(__file__).parents[2]: a checkout, or the script
\* tree ~/.pget/script/pget of a script-mode pget.  Neither the requested
\* version nor build_mode is looked at.
InstallPget ==
    /\ pc = "i_pget"
    /\ \E loc \in {"checkout", "scripttree"} :
         LET d      == fs["pget"]
             there  == loc = "checkout" \/ d.script # None
             tree   == IF loc = "checkout" THEN <<"local">> ELSE d.script
             asScript(c) ==
                 /\ fs' = [fs EXCEPT !["pget"] =
                             install_as_script(d, tree, PGET_VERSION, PGET_VERSION,
                                               loc = "checkout")]
                 /\ IF install_as_script_raises(loc = "checkout")
                      THEN Raise /\ UNCHANGED <<cur, overall, ev>>
                      ELSE /\ ev' = [app |-> "pget", how |-> "script",
                                     sysAv |-> "unsupported", userOK |-> TRUE, ret |-> TRUE, genuine |-> TRUE]
                           /\ NextNameWith(c, TRUE)
         IN IF op.script
              THEN asScript(cur)
              ELSE \E bazel \in BOOLEAN :
                     LET c == [cur EXCEPT !.bazel = IF bazel THEN "yes" ELSE "no"] IN
                     IF ~bazel
                       THEN \E ans \in Answers :
                              LET ca == [c EXCEPT !.ans = ans] IN
                              IF accepts(ans)
                                THEN asScript(ca)
                                ELSE NextNameWith(ca, FALSE) /\ UNCHANGED <<fs, ev>>
                       ELSE \E build \in BuildOutcomes, sysAv \in SysOutcomes, userOK \in BOOLEAN :
                              LET ret == install_with_bazel_ret(there, TRUE, build)
                              IN /\ fs' = [fs EXCEPT !["pget"] =
                                      install_with_bazel(d, File("built", tree),
                                                         PGET_VERSION, PGET_VERSION, "native",
                                                         there, TRUE, build, sysAv, userOK)]
                                 /\ ev' = IF ret
                                            THEN [app |-> "pget", how |-> "build",
                                                  sysAv |-> sysAv, userOK |-> userOK,
                                                  ret |-> TRUE, genuine |-> TRUE]
                                            ELSE ev
                                 /\ NextNameWith(
                                      [c EXCEPT !.build = IF there THEN build ELSE "none"],
                                      ret)
    /\ UNCHANGED <<scn, op, remaining, pre, su>>
    /\ UNCHANGED libvars

\* ------------------------------------------------------------- remove.run
RemoveBegin ==
    /\ pc = "idle"
    /\ \E n \in 1..MaxBatch : remaining' = n
    /\ op' = [NoOp EXCEPT !.cmd = "remove"]
    /\ pc' = "r_next"
    /\ result' = "none"
    /\ overall' = TRUE
    /\ cur' = NoCur
    /\ ev' = NoEv
    /\ su' = NoSu
    /\ pre' = fs
    /\ UNCHANGED <<fs, scn>>
    /\ UNCHANGED libvars

\* remove.py:34-35: one name is uninstalled.  unlink() of a binary the user
\* may not remove raises.
RemoveStep ==
    /\ pc = "r_next"
    /\ remaining > 0
    /\ \E name \in RemoveNames :
         LET d == IF name \in Pkgs THEN fs[name] ELSE EmptyPkg
         IN /\ cur' = [NoCur EXCEPT !.app = name]
            /\ pre' = fs
            /\ \/ /\ fs' = IF name \in Pkgs THEN [fs EXCEPT ![name] = uninstall(d)] ELSE fs
                  /\ overall' = (overall /\ is_installed(d))
                  /\ remaining' = remaining - 1
                  /\ UNCHANGED <<pc, result>>
               \/ /\ is_installed(d)
                  /\ Raise
                  /\ UNCHANGED <<fs, overall, remaining>>
    /\ UNCHANGED <<scn, op, ev, su>>
    /\ UNCHANGED libvars

RemoveFinish ==
    /\ pc = "r_next"
    /\ remaining = 0
    /\ pc' = "done"
    /\ result' = IF overall THEN "ok" ELSE "fail"
    /\ UNCHANGED <<fs, scn, op, remaining, cur, overall, pre, ev, su>>
    /\ UNCHANGED libvars

\* ------------------------------------------------------------- update.run
\* update.py:214-216: once the arguments are parsed, the handler constructs
\* GitHubFetcher(verify_ssl=...); GitHubFetcher.__init__ takes no such
\* parameter, the call raises TypeError and nothing has been touched.
UpdateRun ==
    /\ pc = "idle"
    /\ op' = [NoOp EXCEPT !.cmd = "update"]
    /\ Raise
    /\ remaining' = 0
    /\ overall' = TRUE
    /\ cur' = NoCur
    /\ ev' = NoEv
    /\ su' = NoSu
    /\ pre' = fs
    /\ UNCHANGED <<fs, scn>>
    /\ UNCHANGED libvars


\* update.py:285: the package is reinstalled unless the installed version
\* and the latest version are the same text.
update_due(current, latest) == current # latest

\* update.py:146-217 with the fetcher constructed as install.run constructs
\* it (GitHubFetcher()): the flags are taken from the arguments; the command
\* line names one installed or not installed package other than pget.
UpdateBegin ==
    /\ pc = "idle"
    /\ scn # "pget"
    /\ \E script \in BOOLEAN, build \in BOOLEAN, edge \in BOOLEAN :
         /\ op' = [cmd |-> "update", script |-> script, build |-> build,
                   edge |-> edge, caller |-> "top"]
         /\ IF script /\ build
              THEN pc' = "done" /\ result' = "fail"
              ELSE pc' = "u_check" /\ result' = "none"
    /\ remaining' = 0
    /\ overall' = TRUE
    /\ cur' = [NoCur EXCEPT !.app = scn]
    /\ ev' = NoEv
    /\ su' = NoSu
    /\ pre' = fs
    /\ UNCHANGED <<fs, scn>>
    /\ UNCHANGED libvars

\* update.py:238-249, 290-299: the package is uninstalled and install.run
\* is called for it with the flags of the update.
UpdateReinstall(d) ==
    /\ fs' = [fs EXCEPT ![cur.app] = uninstall(d)]
    /\ op' = [op EXCEPT !.caller = "update"]
    /\ remaining' = 1
    /\ pc' = "i_next"
    /\ UNCHANGED result

\* update.py:279-287: no latest version is a failure, the same version a
\* success with nothing done; d is the package's part of the disk once the
\* latest version has been looked for.
UpdateCompare(d, latest) ==
    IF latest = None
      THEN /\ fs' = [fs EXCEPT ![cur.app] = d]
           /\ pc' = "done" /\ result' = "fail"
           /\ UNCHANGED <<op, remaining>>
    ELSE IF ~update_due(get_package_version(d), latest)
      THEN /\ fs' = [fs EXCEPT ![cur.app] = d]
           /\ pc' = "done" /\ result' = "ok"
           /\ UNCHANGED <<op, remaining>>
    ELSE UpdateReinstall(d)

\* update.py:226-300: the body of the loop for a name other than pget.
UpdateCheck ==
    /\ pc = "u_check"
    /\ LET app == cur.app
           d   == fs[app]
           rel == LStripV(LatestTag(app))
       IN IF ~is_installed(d)
            THEN /\ pc' = "done" /\ result' = "fail"
                 /\ UNCHANGED <<fs, op, remaining>>
          ELSE \/ Raise /\ UNCHANGED <<fs, op, remaining>>
               \/ /\ op.edge
                  /\ UpdateReinstall(d)
               \/ /\ ~op.edge /\ rel # None
                  /\ UpdateCompare(d, rel)
               \/ /\ ~op.edge /\ rel = None
                  /\ \E dls \in BOOLEAN, dlm \in BOOLEAN :
                       LET s  == download_source(app, op.edge, None, dls, dlm)
                           d1 == cache_source(d, app, s)
                       IN IF ~s.ok
                            THEN UpdateCompare(d1, None)
                            ELSE \E tree \in extracted_trees(d1) :
                                   UpdateCompare(d1, TreeDocVersion(app, tree))
    /\ UNCHANGED <<scn, cur, overall, pre, ev, su>>
    /\ UNCHANGED libvars

\* -------------------------------------------------------- update_pget_self
\* The build-from-source path with the uninstall ahead of the check of the
\* download.
self_build_eager(d, s, tree, version, bazel, build, sysAv, userOK) ==
    LET d1 == uninstall(d)
    IN IF ~s.ok THEN d1
       ELSE install_with_bazel(d1, File("built", tree), TreeDocVersion("pget", tree),
                               version, "native",
                               tree \in d1.src /\ TreeHasBuildFile("pget", tree),
                               bazel, build, sysAv, userOK)

\* update.py:114-143, the disk of pget after the build-from-source path: the
\* snapshot s is in the cache (tree: the directory download_app_directory
\* returned); when it came, pget is uninstalled and built from that
\* directory.
self_build(d, s, tree, version, bazel, build, sysAv, userOK) ==
    IF ~s.ok THEN d
    ELSE LET d1 == uninstall(d)
         IN install_with_bazel(d1, File("built", tree), TreeDocVersion("pget", tree),
                               version, "native",
                               tree \in d1.src /\ TreeHasBuildFile("pget", tree),
                               bazel, build, sysAv, userOK)

self_build_ret(d, s, tree, bazel, build) ==
    /\ s.ok
    /\ install_with_bazel_ret(tree \in uninstall(d).src /\ TreeHasBuildFile("pget", tree),
                              bazel, build)

\* The self-update gone through with whatever version is installed.
already_latest_never(current, latest, edge) == FALSE

\* update.py:40: pget is at the latest release and the branch is not asked
\* for.
already_latest(current, latest, edge) == current = latest /\ ~edge

\* update.py:23-44: the installed and the latest version are compared.
SelfUpdateBegin ==
    /\ pc = "idle"
    /\ scn = "pget"
    /\ \E edge \in BOOLEAN, script \in BOOLEAN, build \in BOOLEAN :
         LET d       == fs["pget"]
             current == get_package_version(d)
             found   == find_existing_binary(d)
             latest  == IF edge THEN MAIN ELSE LStripV(LatestTag("pget"))
             started == /\ pc' = "su_route"
                        /\ result' = "none"
                        /\ su' = [NoSu EXCEPT !.target = latest,
                                              !.loc = IF found = "none" THEN "user" ELSE found]
         IN /\ ~(script /\ build)
            /\ op' = [cmd |-> "selfupdate", script |-> script, build |-> build,
                      edge |-> edge, caller |-> "top"]
            /\ IF edge THEN started
               ELSE \/ Raise /\ su' = NoSu
                    \/ IF LatestTag("pget") = None
                         THEN pc' = "done" /\ result' = "fail" /\ su' = NoSu
                       ELSE IF already_latest(current, latest, edge)
                         THEN pc' = "done" /\ result' = "ok" /\ su' = NoSu
                       ELSE started
    /\ remaining' = 0
    /\ overall' = TRUE
    /\ cur' = NoCur
    /\ ev' = NoEv
    /\ pre' = fs
    /\ UNCHANGED <<fs, scn>>
    /\ UNCHANGED libvars

\* update.py:46-67: script mode (or no executable found) goes through
\* uninstall and install.run; otherwise the release binary is fetched, and
\* the build from source is the way on when it did not come or is not wanted.
SelfUpdateRoute ==
    /\ pc = "su_route"
    /\ LET d == fs["pget"] IN
       IF op.script \/ ~Exists(d[su.loc])
         THEN /\ fs' = [fs EXCEPT !["pget"] = uninstall(d)]
              /\ op' = [op EXCEPT !.build = FALSE, !.caller = "selfupdate"]
              /\ remaining' = 1
              /\ pc' = "i_next"
              /\ UNCHANGED <<su, result>>
       ELSE IF ~op.build /\ ~op.edge
         THEN \/ Raise /\ UNCHANGED <<fs, op, remaining, su>>
              \/ \E dl \in BOOLEAN :
                   LET b == download_binary("pget", None, dl) IN
                   /\ fs' = [fs EXCEPT !["pget"] = cache_binary(d, b)]
                   /\ su' = [su EXCEPT !.binDl = IF b.path THEN "ok" ELSE "fail",
                                       !.new = IF b.path THEN File("binary", b.tag)
                                               ELSE NoFile]
                   /\ pc' = IF b.path THEN "su_backup" ELSE "su_source"
                   /\ UNCHANGED <<op, remaining, result>>
       ELSE /\ pc' = "su_source"
            /\ UNCHANGED <<fs, op, remaining, su, result>>
    /\ UNCHANGED <<scn, cur, overall, pre, ev>>
    /\ UNCHANGED libvars

\* The swap with the backup removed before the record is written.
swap_next_remove_first(step) ==
    CASE step = "su_backup"   -> "su_unlink"
      [] step = "su_unlink"   -> "su_copy"
      [] step = "su_copy"     -> "su_rmbackup"
      [] step = "su_rmbackup" -> "su_record"
      [] OTHER                -> "done"

\* update.py:73-101: the statements of the try block in the order they are
\* written: backup, unlink, copy, record, removal of the backup, return.
swap_next(step) ==
    CASE step = "su_backup"   -> "su_unlink"
      [] step = "su_unlink"   -> "su_copy"
      [] step = "su_copy"     -> "su_record"
      [] step = "su_record"   -> "su_rmbackup"
      [] OTHER                -> "done"

\* A statement of the try block has gone through: the next one is reached,
\* or `return True` (update.py:101).
SwapStep(step) ==
    /\ pc' = swap_next(step)
    /\ result' = IF swap_next(step) = "done" THEN "ok" ELSE result

\* An exception inside the try block of the swap (update.py:102).
SwapFails(how) ==
    /\ pc' = "su_except"
    /\ su' = [su EXCEPT !.copy = how]
    /\ UNCHANGED result

\* update.py:73-76: the executable is made writable and copied to pget.old.
SelfUpdateBackup ==
    /\ pc = "su_backup"
    /\ LET d == fs["pget"] IN
       \/ /\ fs' = [fs EXCEPT !["pget"].backup = [d[su.loc] EXCEPT !.x = TRUE],
                              !["pget"][su.loc].x = TRUE]
          /\ SwapStep("su_backup")
          /\ UNCHANGED su
       \/ /\ UNCHANGED fs
          /\ SwapFails("backup")
    /\ UNCHANGED <<scn, op, remaining, cur, overall, pre, ev>>
    /\ UNCHANGED libvars

\* update.py:79-80: the old executable is unlinked.
SelfUpdateUnlink ==
    /\ pc = "su_unlink"
    /\ \/ /\ fs' = [fs EXCEPT !["pget"][su.loc] = NoFile]
          /\ SwapStep("su_unlink")
          /\ UNCHANGED su
       \/ /\ SwapFails("unlink")
          /\ UNCHANGED fs
    /\ UNCHANGED <<scn, op, remaining, cur, overall, pre, ev>>
    /\ UNCHANGED libvars

\* update.py:82-83: the new binary is copied into place and made executable.
\* The copy may fail before it creates the file or while it writes it.
SelfUpdateCopy ==
    /\ pc = "su_copy"
    /\ \/ /\ fs' = [fs EXCEPT !["pget"][su.loc] = su.new]
          /\ su' = [su EXCEPT !.copy = "ok"]
          /\ SwapStep("su_copy")
       \/ /\ UNCHANGED fs
          /\ SwapFails("nofile")
       \/ /\ fs' = [fs EXCEPT !["pget"][su.loc] =
                      [kind |-> "partial", ver |-> su.new.ver, x |-> FALSE]]
          /\ SwapFails("partial")
    /\ UNCHANGED <<scn, op, remaining, cur, overall, pre, ev>>
    /\ UNCHANGED libvars

\* update.py:86-87: the record takes the new version.
SelfUpdateRecord ==
    /\ pc = "su_record"
    /\ fs' = [fs EXCEPT !["pget"] = save_package_info(@, su.target, "native")]
    /\ SwapStep("su_record")
    /\ UNCHANGED <<scn, op, remaining, cur, overall, pre, ev, su>>
    /\ UNCHANGED libvars

\* update.py:93-99: the backup is removed; a removal that fails is logged
\* and otherwise ignored.
SelfUpdateRemoveBackup ==
    /\ pc = "su_rmbackup"
    /\ \E removed \in BOOLEAN :
         /\ fs' = IF removed THEN [fs EXCEPT !["pget"].backup = NoFile] ELSE fs
         /\ su' = [su EXCEPT !.rm = IF removed THEN "ok" ELSE "failed"]
    /\ SwapStep("su_rmbackup")
    /\ UNCHANGED <<scn, op, remaining, cur, overall, pre, ev>>
    /\ UNCHANGED libvars

\* update.py:102-112: the handler restores the backup when the executable is
\* gone (a failing restore is swallowed) and returns False.
SelfUpdateRestore ==
    /\ pc = "su_except"
    /\ LET d == fs["pget"] IN
       IF Exists(d.backup) /\ ~Exists(d[su.loc])
         THEN \E restored \in BOOLEAN :
                /\ fs' = IF restored THEN [fs EXCEPT !["pget"][su.loc] = d.backup] ELSE fs
                /\ su' = [su EXCEPT !.restore = IF restored THEN "ok" ELSE "failed"]
         ELSE UNCHANGED <<fs, su>>
    /\ pc' = "done"
    /\ result' = "fail"
    /\ UNCHANGED <<scn, op, remaining, cur, overall, pre, ev>>
    /\ UNCHANGED libvars

\* update.py:114-143: build from source.
SelfUpdateBuild ==
    /\ pc = "su_source"
    /\ \E dls \in BOOLEAN, dlm \in BOOLEAN :
         LET d  == fs["pget"]
             s  == download_source("pget", op.edge, IF op.edge THEN None ELSE su.target,
                                   dls, dlm)
             d1 == cache_source(d, "pget", s)
             version == IF op.edge THEN MAIN ELSE su.target
         IN \E tree \in IF s.ok THEN extracted_trees(d1) ELSE {None} :
            \E bazel \in BOOLEAN, build \in BuildOutcomes, sysAv \in SysOutcomes,
               userOK \in BOOLEAN :
              /\ fs' = [fs EXCEPT !["pget"] =
                          self_build(d1, s, tree, version, bazel, build, sysAv, userOK)]
              /\ su' = [su EXCEPT !.srcDl = IF s.ok THEN "ok" ELSE "fail"]
              /\ result' = IF self_build_ret(d1, s, tree, bazel, build) THEN "ok" ELSE "fail"
    /\ pc' = "done"
    /\ UNCHANGED <<scn, op, remaining, cur, overall, pre, ev>>
    /\ UNCHANGED libvars

\* ------------------------------------------------------------------ system
\* main.py:141-154: the command has returned, the process exits with its
\* code; nothing of the command but the disk outlives it.
Exit ==
    /\ pc = "done"
    /\ pc' = "idle"
    /\ op' = NoOp
    /\ remaining' = 0
    /\ cur' = NoCur
    /\ overall' = TRUE
    /\ result' = "none"
    /\ pre' = fs
    /\ ev' = NoEv
    /\ su' = NoSu
    /\ UNCHANGED <<fs, scn>>
    /\ UNCHANGED libvars

Next ==
    \/ InstallBegin
    \/ InstallNext
    \/ InstallCheck
    \/ InstallResolve
    \/ InstallBinary
    \/ InstallFetchSource
    \/ InstallStrategy
    \/ InstallPget
    \/ RemoveBegin
    \/ RemoveStep
    \/ RemoveFinish
    \/ UpdateRun
    \/ UpdateBegin
    \/ UpdateCheck
    \/ SelfUpdateBegin
    \/ SelfUpdateRoute
    \/ SelfUpdateBackup
    \/ SelfUpdateUnlink
    \/ SelfUpdateCopy
    \/ SelfUpdateRecord
    \/ SelfUpdateRemoveBackup
    \/ SelfUpdateRestore
    \/ SelfUpdateBuild
    \/ Exit

Spec == Init /\ [][Next]_vars

\* ------------------------------------------- calls into app/security
\* A host as the security helpers may find it.
Hosts ==
    [gpg : BOOLEAN,
     keys : {[exists |-> FALSE, files |-> {}]}
              \cup {[exists |-> TRUE, files |-> f] : f \in SUBSET KeyFiles},
     amb : Ambients,
     tmp : {NoTmp}]

InitVerify ==
    /\ fs = [p \in Pkgs |-> EmptyPkg]
    /\ scn = "pget"
    /\ pc = "idle"
    /\ op = NoOp
    /\ remaining = 0
    /\ cur = NoCur
    /\ overall = TRUE
    /\ result = "none"
    /\ pre = [p \in Pkgs |-> EmptyPkg]
    /\ ev = NoEv
    /\ su = NoSu
    /\ host \in Hosts
    /\ vf = NoVf
    /\ ft = NoFt
    /\ ls = NoLs

\* The call raises: the exception is what the caller gets.
Raised(c, e) == vf' = [c EXCEPT !.pc = "raised", !.err = e]

\* verify_manifest is called and enters verify_detached_signature
\* (manifest.py:53, pgp.py:51-56): gpg is looked for, the bundled key files
\* are listed and the temporary directory is created.
VerifyBegin ==
    /\ vf.pc = "idle"
    /\ \E m \in Manifests, signer \in Signers :
         LET c == [NoVf EXCEPT !.fn = "verify_manifest", !.manifest = m,
                               !.signer = signer, !.amb0 = host.amb]
         IN IF ~host.gpg \/ ~host.keys.exists \/ host.keys.files = {}
              THEN Raised(c, "PGPError") /\ UNCHANGED host
              ELSE /\ vf' = [c EXCEPT !.pc = "v_import"]
                   /\ host' = [host EXCEPT !.tmp = [exists |-> TRUE, keys |-> {}]]
    /\ UNCHANGED <<cmdvars, ft, ls>>

\* pgp.py:58-77: every bundled key file is imported into the temporary
\* keyring; a file gpg rejects ends the call, and the with block removes
\* the temporary directory.
VerifyImport ==
    /\ vf.pc = "v_import"
    /\ LET amb == gpg_home(IMPORT_ARGS, host.amb) IN
       IF "junk" \in host.keys.files
         THEN /\ Raised(vf, "PGPError")
              /\ host' = [host EXCEPT !.amb = amb, !.tmp = NoTmp]
         ELSE /\ vf' = [vf EXCEPT !.pc = "v_verify"]
              /\ host' = [host EXCEPT !.amb = amb,
                                       !.tmp = [exists |-> TRUE, keys |-> host.keys.files]]
    /\ UNCHANGED <<cmdvars, ft, ls>>

\* pgp.py:79-116: gpg --verify runs; a non-zero return code raises, else the
\* fingerprint of the VALIDSIG line is returned.  Either way the with block
\* is left and the temporary directory removed.
VerifySignature ==
    /\ vf.pc = "v_verify"
    /\ LET ring == gpg_keyrings(VERIFY_ARGS, host.tmp.keys, host.amb)
           c    == [vf EXCEPT !.used = ring] IN
       /\ IF vf.signer \in ring
            THEN vf' = [c EXCEPT !.pc = "v_parse", !.sig = "valid", !.fp = vf.signer]
            ELSE Raised([c EXCEPT !.sig = "invalid"], "PGPError")
       /\ host' = [host EXCEPT !.amb = gpg_home(VERIFY_ARGS, @), !.tmp = NoTmp]
    /\ UNCHANGED <<cmdvars, ft, ls>>

\* manifest.py:53-61: the manifest is parsed and its schema checked; the
\* pair (manifest, fingerprint) is returned.
VerifyParse ==
    /\ vf.pc = "v_parse"
    /\ LET c == [vf EXCEPT !.parsed = TRUE] IN
       IF vf.manifest.json = "invalid" \/ ~validate_manifest_schema(vf.manifest)
         THEN Raised(c, "ManifestError")
         ELSE vf' = [c EXCEPT !.pc = "returned"]
    /\ UNCHANGED <<cmdvars, host, ft, ls>>

\* manifest.ensure_asset_checksum is called on a manifest dict, an asset
\* name and a path.
CheckAsset ==
    /\ vf.pc = "idle"
    /\ \E m \in ManifestObjects, name \in AssetNames, file \in Files :
         LET c == [NoVf EXCEPT !.fn = "ensure_asset_checksum", !.manifest = m,
                               !.asset = name, !.file = file, !.amb0 = host.amb]
             r == ensure_asset_checksum(m, name, file)
         IN IF r = "ok" THEN vf' = [c EXCEPT !.pc = "returned"] ELSE Raised(c, r)
    /\ UNCHANGED <<cmdvars, host, ft, ls>>

\* The caller has the outcome; the call is over.
VerifyEnd ==
    /\ vf.pc \in {"returned", "raised"}
    /\ vf' = NoVf
    /\ UNCHANGED <<cmdvars, host, ft, ls>>

NextVerify ==
    \/ VerifyBegin
    \/ VerifyImport
    \/ VerifySignature
    \/ VerifyParse
    \/ CheckAsset
    \/ VerifyEnd

SpecVerify == InitVerify /\ [][NextVerify]_vars


\* ================================================================ claims
\* The parts of a package's installation that frame claims speak of: the
\* executables, the record, the helper directory with its docs and the
\* script tree.
Installation(d) ==
    [sys |-> d.sys, user |-> d.user, meta |-> d.meta, helper |-> d.helper,
     doc |-> d.doc, script |-> d.script]

\* An executable entrypoint is in place: present and executable.
Placed(d) == \E loc \in {"sys", "user"} : Exists(d[loc]) /\ d[loc].x

\* A complete executable (the old or the new one) is in place.
Working(d) == \E loc \in {"sys", "user"} : d[loc].kind \notin {"none", "partial"} /\ d[loc].x

\* The current name of an install command has been dealt with.
NameDone == op.cmd = "install" /\ pc \in {"i_next", "done"} /\ cur.ok # "none"

\* C1: when a command has ended (also part-way), every package has a record
\* if and only if it has an executable entrypoint in the system or the user
\* bin directory.
C1_RecordIffEntrypoint ==
    pc = "done" => \A p \in Pkgs : HasMeta(fs[p]) <=> is_installed(fs[p])

\* C2: when update_pget_self ends, on whatever path, a pget that had an
\* executable before still has a complete executable, the old or the new one.
C2_SelfUpdateKeepsExecutable ==
    (pc = "done" /\ op.cmd = "selfupdate" /\ Working(pre["pget"]))
        => Working(fs["pget"])

\* C3: when the copy of the new binary onto the installed path fails after
\* the backup was made (no file or a partial file left there), and the
\* restoring copy does not fail itself, the original executable is back at
\* the installed path and executable when update_pget_self returns.
C3_FailedCopyRestoresOriginal ==
    (pc = "done" /\ op.cmd = "selfupdate" /\ su.copy \in {"nofile", "partial"}
       /\ su.restore # "failed")
        => /\ fs["pget"][su.loc] = pre["pget"][su.loc]
           /\ fs["pget"][su.loc].x

C5_MissingVersionLeavesInstalled ==
    (NameDone /\ cur.app \in Pkgs \ {"pget"} /\ cur.reqv # None
       /\ get_release_by_tag(cur.app, cur.reqv) = None
       /\ is_installed(pre[cur.app]))
        => /\ cur.ok = "fail"
           /\ Installation(fs[cur.app]) = Installation(pre[cur.app])

\* C6: a release binary whose bytes are not the ones the signed manifest
\* lists is never placed: its installation ends with no executable and no
\* record for the package.
C6_OnlyVerifiedBinaryPlaced ==
    (ev.how = "binary" /\ ~ev.genuine)
        => ~is_installed(fs[ev.app]) /\ ~HasMeta(fs[ev.app])

\* C7: an install in edge mode without an explicit version that succeeds
\* has installed the branch state, not a release binary, and the record
\* holds the branch ref.
C7_EdgeInstallsBranch ==
    (NameDone /\ op.edge /\ cur.reqv = None /\ cur.ok = "ok"
       /\ cur.app \in Pkgs \ {"pget"})
        => /\ fs[cur.app].meta.ver = MAIN
           /\ ev.how # "binary"

\* C8: whenever the record of a package is written, its executable is in
\* place and executable.
C8_RecordOnlyAfterPlacement ==
    [][\A p \in Pkgs :
         (fs'[p].meta # fs[p].meta /\ HasMeta(fs'[p])) => Placed(fs'[p])]_vars

\* C9: when an install command has ended, every name of its command line
\* has been attempted, whatever the failures of the names before it: no name
\* is left unreached.
C9_BatchGoesOn ==
    (pc = "done" /\ op.cmd = "install") => remaining = 0

NameOver ==
    op.cmd = "install" /\ pc \in {"i_next", "done"} /\ cur.app \in Pkgs

\* The request for package p has created nothing: every executable, the
\* script tree and the record are absent or the ones that were there before.
CreatedNothing(p) ==
    /\ \A loc \in {"sys", "user"} : fs[p][loc] \in {NoFile, pre[p][loc]}
    /\ fs[p].script \in {None, pre[p].script}
    /\ fs[p].meta \in {NoMeta, pre[p].meta}

\* C11: a binary or build installation whose system-wide placement was not
\* available and whose user-scoped placement was denied is reported as
\* failed and leaves no record.
C11_BothDeniedFails ==
    (ev.how \in {"binary", "build"} /\ ev.sysAv # "ok" /\ ~ev.userOK)
        => /\ cur.ok = "fail"
           /\ ~HasMeta(fs[ev.app])

\* C12: installing a package that is installed, with no version asked,
\* leaves its executable, record, helper directory and script tree as they
\* were and does not report success for it.
C12_InstalledNotReinstalled ==
    (NameOver /\ cur.reqv = None /\ is_installed(pre[cur.app]))
        => /\ Installation(fs[cur.app]) = Installation(pre[cur.app])
           /\ cur.ok # "ok"

\* C13: installing a package with an explicit version that is, in tag form,
\* the version its record holds changes nothing on disk and fails for it.
C13_SameVersionNoOpFailure ==
    (NameOver /\ cur.reqv # None /\ is_installed(pre[cur.app]) /\ HasMeta(pre[cur.app])
       /\ TagForm(cur.reqv) = TagForm(pre[cur.app].meta.ver))
        => /\ cur.ok = "fail"
           /\ fs[cur.app] = pre[cur.app]

\* C14: when the install of an explicit version over a different installed
\* version succeeds, the record holds the requested version (in tag form)
\* and exactly one executable of the package exists.
C14_ReplacedByRequestedVersion ==
    (NameOver /\ cur.app # "pget" /\ cur.reqv # None /\ is_installed(pre[cur.app])
       /\ TagForm(cur.reqv) # TagForm(get_package_version(pre[cur.app]))
       /\ cur.ok = "ok")
        => /\ TagForm(fs[cur.app].meta.ver) = TagForm(cur.reqv)
           /\ Cardinality({loc \in {"sys", "user"} : Exists(fs[cur.app][loc])}) = 1

\* C15: with an explicit version every fetch made for the package is of the
\* requested tag, and a request for a tag without a release fails.
C15_ExplicitVersionOnlyThatTag ==
    (NameOver /\ cur.reqv # None /\ cur.ok # "none")
        => /\ cur.binTag \in {None, TagForm(cur.reqv)}
           /\ cur.srcRef \in {None, TagForm(cur.reqv)}
           /\ TagForm(cur.reqv) \notin Releases(cur.app) => cur.ok = "fail"

\* C16: for a package without a release, a request with no version and no
\* edge flag fetches the branch snapshot and resolves to the branch ref:
\* download_source answers [ok, main, main] whenever the branch tarball
\* downloads, and what install.run fetched is the branch.
C16_NoReleaseFallsBackToBranch ==
    /\ \A p \in Pkgs, dl \in BOOLEAN :
         LatestTag(p) = None
           => download_source(p, FALSE, None, dl, TRUE)
                = [ok |-> TRUE, ref |-> MAIN, tag |-> MAIN]
    /\ (op.cmd = "install" /\ cur.app \in Pkgs /\ LatestTag(cur.app) = None
          /\ ~op.edge /\ cur.reqv = None /\ cur.src = "ok")
         => cur.srcRef = MAIN /\ cur.tag = MAIN /\ cur.tree = MAIN

C16_Witness ==
    /\ NameOver /\ cur.app = "bar" /\ ~op.edge /\ cur.reqv = None
    /\ cur.src = "ok" /\ cur.srcRef = MAIN /\ cur.ok = "ok"
    /\ fs["bar"].meta.ver = MAIN

\* C17: with script or build mode forced, no release binary is looked up or
\* downloaded for a name and no release binary is installed.
C17_ForcedModeSkipsBinary ==
    (op.cmd = "install" /\ (op.script \/ op.build))
        => /\ cur.bin = "none" /\ cur.binTag = None
           /\ ev.how # "binary"

C17_Witness ==
    /\ NameOver /\ (op.script \/ op.build) /\ cur.ok = "ok"
    /\ cur.app # "pget" /\ cur.reqv = None /\ ~op.edge
    /\ LatestTag(cur.app) # None /\ HasAsset(cur.app, LatestTag(cur.app))
    /\ ev.how \in {"script", "build"}

\* C18: when the binary lookup finds no asset (or no release), the source
\* installation of the same package is entered: the name is not over before
\* the source snapshot has been asked for.
C18_NoAssetFallsToSource ==
    cur.bin = "notfound"
        => \/ pc \in {"i_source", "i_strategy"}
           \/ cur.src # "none"
           \/ result = "crash"

C18_Witness ==
    /\ NameOver /\ cur.bin = "notfound" /\ cur.src = "ok" /\ cur.ok = "ok"
    /\ ~HasAsset(cur.app, LatestTag(cur.app))

\* C19: a prompt answered with anything but y/yes, or met by a closed input
\* stream, fails the package as cancelled with nothing created for it, and
\* the command goes on.
C19_DeclinedPromptCancels ==
    (op.cmd = "install" /\ cur.ans \in {"n", "other", "eof"})
        => /\ cur.ok = "fail" /\ cur.bazel = "no"
           /\ CreatedNothing(cur.app)
           /\ ev.how = "none"
           /\ result # "crash"
           /\ pc = "i_next" \/ (pc = "done" /\ remaining = 0 /\ result = "fail")

C19_Witness ==
    /\ op.cmd = "install" /\ cur.ans = "eof" /\ cur.app \notin {"pget"}
    /\ pc = "i_next" /\ remaining > 0 /\ cur.ok = "fail"
    /\ ~is_installed(fs[cur.app]) /\ fs[cur.app].script = None /\ ~HasMeta(fs[cur.app])

\* C20: with build mode forced and no build tool, the package fails, no
\* prompt is shown and nothing is created for it.
C20_ForcedBuildNoPrompt ==
    (NameOver /\ op.build /\ cur.bazel = "no")
        => /\ cur.ans = "none"
           /\ cur.ok = "fail"
           /\ CreatedNothing(cur.app)

C22_ScenarioA ==
    /\ NameOver
    /\ ~op.script /\ ~op.build /\ ~op.edge
    /\ cur.reqv = None
    /\ LatestTag(cur.app) = <<"v", "1.2.0">>
    /\ HasAsset(cur.app, LatestTag(cur.app))
    /\ cur.bin = "found"
    /\ ev.app = cur.app
    /\ (ev.sysAv = "ok" \/ ev.userOK)

\* The release's binary is the executable in place.
C22_BinaryInPlace ==
    \E loc \in {"sys", "user"} :
        fs[cur.app][loc] = File("binary", <<"v", "1.2.0">>)

C23_NoBuildFileFailsBeforeBazel ==
    [][(pc = "i_strategy" /\ cur'.bazel = "yes"
          /\ ~TreeHasBuildFile(cur.app, cur.tree))
         => (fs' = fs /\ ev' = ev /\ cur'.ok = "fail" /\ cur'.build = "none")]_vars

C23_Witness ==
    /\ NameOver /\ cur.app = "baz"
    /\ cur.bazel = "yes" /\ cur.tree = <<"v", "1.0.0">>
    /\ cur.ok = "fail" /\ cur.build = "none"
    /\ ~Placed(fs["baz"]) /\ ~HasMeta(fs["baz"])

\* C24: a self-update entered with pget at the latest release and without
\* edge mode, once the release has been resolved, has returned success with
\* nothing changed: the disk (executables, record, cache, backup) is as it
\* was and no uninstall, download or install step has run.
C24_UpToDateIsNoOp ==
    (/\ op.cmd = "selfupdate" /\ ~op.edge
     /\ get_package_version(pre["pget"]) = LStripV(LatestTag("pget"))
     /\ result # "crash")
      => /\ pc = "done"
         /\ result = "ok"
         /\ fs = pre
         /\ su = NoSu /\ ev = NoEv /\ cur = NoCur

C24_Witness ==
    /\ op.cmd = "selfupdate" /\ ~op.edge
    /\ pc = "done" /\ result = "ok" /\ su = NoSu
    /\ Working(fs["pget"])
    /\ Exists(fs["pget"].backup)
    /\ get_package_version(fs["pget"]) = <<"1.2.0">>

C26_ScriptSelfUpdate ==
    (op.cmd = "selfupdate" /\ op.script /\ su.target # None)
      => /\ su.binDl = "none" /\ su.copy = "none" /\ su.srcDl = "none"
         /\ pc \notin {"su_backup", "su_unlink", "su_copy", "su_record",
                        "su_rmbackup", "su_except", "su_source"}
         /\ (pc = "done" /\ result = "ok")
              => LET d == fs["pget"] IN
                 /\ d.script # None
                 /\ d.user = File("wrapper", d.script)
                 /\ d.meta.platform = "script"
                 /\ get_package_version(d) = su.target

\* A manifest object whose assets mapping is missing, no mapping, or empty.
EmptyAssets(m) ==
    m.json = "object" /\ (m.assets # "map" \/ DOMAIN m.map = {})

\* C27: no call of verify_manifest on a manifest whose assets mapping is
\* empty, missing or no mapping returns: whether the signature is valid or
\* not the call raises, and once the signature has validated it raises
\* ManifestError.
C27_EmptyAssetsRejected ==
    (vf.fn = "verify_manifest" /\ EmptyAssets(vf.manifest))
      => /\ vf.pc # "returned"
         /\ vf.parsed => (vf.pc = "raised" /\ vf.err = "ManifestError")

C27_Witness ==
    /\ vf.fn = "verify_manifest"
    /\ vf.manifest = Manifest("object", "map", NoMap)
    /\ vf.sig = "valid" /\ vf.parsed
    /\ vf.pc = "raised" /\ vf.err = "ManifestError"

\* C28: verify_manifest parses the manifest only after the signature has
\* validated, and when it has returned the signature validated against a
\* bundled key and every entry of assets is a string of 64 lowercase hex
\* characters.
C28_ReturnsOnlyVerified ==
    vf.fn = "verify_manifest"
      => /\ vf.parsed => vf.sig = "valid"
         /\ vf.pc = "returned"
              => /\ vf.sig = "valid"
                 /\ vf.fp \in host.keys.files
                 /\ \A n \in DOMAIN vf.manifest.map :
                       /\ vf.manifest.map[n].isstr
                       /\ IsHexDigest(vf.manifest.map[n].s)

\* C29: ensure_asset_checksum returns if and only if the manifest has an
\* entry for the asset name and that entry is the sha256 digest of the
\* file's content; it raises ManifestError when the name has no entry.
C29_PassesIffDigestMatches ==
    (vf.fn = "ensure_asset_checksum" /\ vf.pc \in {"returned", "raised"})
      => LET m == vf.manifest IN
         /\ vf.pc = "returned"
              <=> /\ vf.asset \in DOMAIN m.map
                  /\ vf.file \in Contents
                  /\ m.map[vf.asset] = Str(sha256(vf.file))
         /\ (m.assets # "notmap" /\ vf.asset \notin DOMAIN m.map)
              => vf.err = "ManifestError"

C29_Witness ==
    /\ vf.fn = "ensure_asset_checksum" /\ vf.pc = "returned"
    /\ vf.file = "c2"
    /\ vf.manifest.map[vf.asset] = Str(<<"h2">>)

\* C30: the temporary keyring holds bundled keys only, the signature is
\* looked up in bundled keys only, and once verify_detached_signature has
\* returned or raised the temporary directory is gone and the ambient key
\* stores of the host are as they were when the call was entered.
C30_IsolatedStore ==
    /\ host.tmp.keys \subseteq host.keys.files
    /\ vf.used \subseteq host.keys.files
    /\ (vf.fn = "verify_manifest" /\ vf.pc \in {"v_parse", "returned", "raised"})
         => /\ ~host.tmp.exists
            /\ host.amb = vf.amb0

\* The package is gone from the host: no executable in either bin
\* directory, no record, no helper directory, no documentation, no script
\* tree and nothing in the download cache.
Gone(d) ==
    /\ ~Exists(d.sys) /\ ~Exists(d.user)
    /\ ~HasMeta(d) /\ ~d.helper /\ d.doc = None
    /\ d.script = None
    /\ d.files = {} /\ d.src = {}

\* The name of a remove command line that has just been uninstalled with
\* success: the package was installed and uninstall did not raise.
UninstalledNow ==
    /\ op.cmd = "remove" /\ pc \in {"r_next", "done"}
    /\ cur.app \in Pkgs /\ is_installed(pre[cur.app])
    /\ result # "crash"

\* C32: immediately after a successful uninstall of a package nothing of it
\* is left (executables, record, helper directory, script tree, download
\* cache) and the package is reported as not installed.
C32_UninstallRemovesAll ==
    UninstalledNow
      => /\ Gone(fs[cur.app])
         /\ ~is_installed(fs[cur.app])

\* C33: a source fetch that succeeded hands back the tree of the snapshot it
\* has just downloaded, whatever other tree of the package the extraction
\* directory still holds.
C33_ReturnsFetchedTree ==
    (op.cmd = "install" /\ cur.src = "ok") => cur.tree = cur.srcRef

\* C35: an interrupt received while the script prompt is waiting ends the
\* request for that package as a reported failure, the command does not
\* crash, and no executable, script tree or record is created for it.
C35_InterruptAtPromptAborts ==
    (op.cmd = "install" /\ cur.ans = "interrupt")
      => /\ pc \in {"i_next", "done"}
         /\ cur.ok = "fail"
         /\ result # "crash"
         /\ pc = "done" => result = "fail"
         /\ CreatedNothing(cur.app)

C35_Witness ==
    /\ op.cmd = "install" /\ cur.app = "bar" /\ cur.ans = "interrupt"
    /\ cur.src = "ok"
    /\ pc = "done" /\ result = "fail"
    /\ ~is_installed(fs["bar"])

\* A name that is no installable program: unknown to the organisation, on
\* the ignored list, or a repository without the .program marker file.
NotInstallable(n) ==
    \/ n \in IGNORED_REPOS
    \/ ~RepoExists(n)
    \/ ~HasMarker(n)

\* C38: a name that is no installable program never gets as far as a
\* download or an installation step, whatever the flags and the version
\* asked for, and when install has dealt with it the request has failed
\* with nothing fetched and the host as it was.
C38_NotInstallableNeverInstalled ==
    (op.cmd = "install" /\ cur.app # "none" /\ NotInstallable(cur.app))
      => /\ pc \in {"i_check", "i_resolve", "i_next", "done"}
         /\ cur.bin = "none" /\ cur.src = "none"
         /\ ev = NoEv
         /\ fs = pre
         /\ pc \in {"i_next", "done"} => (cur.ok = "fail" \/ result = "crash")

C38_Witness ==
    /\ op.cmd = "install" /\ op.script
    /\ cur.app = "web" /\ cur.reqv = <<"1.2.0">>
    /\ pc = "done" /\ result = "fail" /\ cur.ok = "fail"
    /\ fs = pre

\* The latest version an update finds for package p with the catalog as it
\* is: the latest release tag without its leading v's, else the VERSION of
\* the doc file of the branch.
LatestFor(p) ==
    IF LStripV(LatestTag(p)) # None THEN LStripV(LatestTag(p))
    ELSE TreeDocVersion(p, MAIN)

\* An update of a package that was installed has ended, by a return or by
\* an exception.
UpdateOver ==
    /\ op.cmd = "update" /\ pc = "done"
    /\ cur.app \in Pkgs /\ is_installed(pre[cur.app])

InitFetch ==
    /\ Init
    /\ ft.seen = {}

\* What the fetcher has done once a call for cache file f is over: got says
\* whether the file came, r is the outcome of _download_file.
Fetched(f, got, inCache, r) ==
    IF got
      THEN [seen |-> ft.seen \cup {f}, file |-> f,
            again |-> f \in ft.seen /\ inCache, net |-> r.net]
      ELSE [ft EXCEPT !.file = None, !.again = FALSE, !.net = FALSE]

\* fetcher.py:96-149: download_binary; the asset goes to
\* get_cache_path(app, asset name) through _download_file.
FetchBinary ==
    /\ \E v \in ReqVersions, dl \in BOOLEAN :
         LET d == fs[scn]
             b == download_binary(scn, v, dl)
             f == <<"asset", b.tag>>
             r == download_file(f \in d.files, dl)
         IN /\ fs' = [fs EXCEPT ![scn] = cache_binary(d, b)]
            /\ ft' = Fetched(f, b.path, f \in d.files, r)
    /\ UNCHANGED <<scn, pc, op, remaining, cur, overall, result, pre, ev, su>>
    /\ UNCHANGED <<secvars, ls>>

\* fetcher.py:151-226: download_source within download_app_directory; the
\* tarball goes to get_cache_path(app, <app>-<ref>.tar.gz) through
\* _download_file and is extracted.
FetchSource ==
    /\ \E edge \in BOOLEAN, v \in ReqVersions, dls \in BOOLEAN, dlm \in BOOLEAN :
         LET d == fs[scn]
             s == download_source(scn, edge, v, dls, dlm)
             f == <<"tar", s.ref>>
             r == download_file(f \in d.files, s.ok)
         IN /\ fs' = [fs EXCEPT ![scn] = cache_source(d, scn, s)]
            /\ ft' = Fetched(f, s.ok, f \in d.files, r)
    /\ UNCHANGED <<scn, pc, op, remaining, cur, overall, result, pre, ev, su>>
    /\ UNCHANGED <<secvars, ls>>

\* installer.py:180-183: the download cache of the package is removed.
CacheCleared ==
    /\ fs[scn].files # {}
    /\ fs' = [fs EXCEPT ![scn] = [@ EXCEPT !.files = {}, !.src = {}]]
    /\ UNCHANGED <<scn, pc, op, remaining, cur, overall, result, pre, ev, su>>
    /\ UNCHANGED <<secvars, ft, ls>>

\* The process ends and another starts: a new GitHubFetcher, the cache
\* directory as the last one left it.
FetchNewRun ==
    /\ ft # NoFt
    /\ ft' = NoFt
    /\ UNCHANGED cmdvars
    /\ UNCHANGED <<secvars, ls>>

NextFetch ==
    \/ FetchBinary
    \/ FetchSource
    \/ CacheCleared
    \/ FetchNewRun

SpecFetch == InitFetch /\ [][NextFetch]_vars

\* --------------------------------------------------- pget list --upstream
InitList ==
    /\ Init
    /\ scn = "pget"

\* cli.py:31-36, core.py:157-158: `list -u` asks the API for the
\* repositories of the organisation; _http_get hands back its answer.
ListRequest ==
    /\ ls.pc = "idle"
    /\ \E r \in Responses : ls' = [NoLs EXCEPT !.pc = "answered", !.resp = r]
    /\ UNCHANGED cmdvars
    /\ UNCHANGED <<secvars, ft>>

\* cli.py:36-45: the names list_cloud_apps returns are printed one per line
\* and the exit code is 0; an exception on the way gives exit code 1.
ListPrint ==
    /\ ls.pc = "answered"
    /\ ls' = IF ls.resp.json = "raised"
               THEN [ls EXCEPT !.pc = "done", !.rc = 1]
               ELSE [ls EXCEPT !.pc = "done", !.out = list_cloud_apps(ls.resp),
                               !.rc = 0]
    /\ UNCHANGED cmdvars
    /\ UNCHANGED <<secvars, ft>>

\* The command is over.
ListExit ==
    /\ ls.pc = "done"
    /\ ls' = NoLs
    /\ UNCHANGED cmdvars
    /\ UNCHANGED <<secvars, ft>>

NextList ==
    \/ ListRequest
    \/ ListPrint
    \/ ListExit

SpecList == InitList /\ [][NextList]_vars

\* C31: a call that fetches a file this fetcher has downloaded before,
\* while the file's cache entry is still there, does not take it from the
\* network again.
C31_CachedNotDownloadedAgain ==
    ft.again => ~ft.net

\* The names of the repositories in the listing the API answered with.
CatalogNames(r) ==
    {r.items[i].name : i \in {j \in 1..Len(r.items) : r.items[j].kind = "dict"}}

\* C34: `list -u` on the listing the API answers with ends with exit code
\* 0 and prints the names of the listing that are not empty and do not
\* start with a dot, each once, in sorted order; whatever the answer, no
\* name starting with a dot is printed.
C34_ListsVisibleNamesSorted ==
    ls.pc = "done"
      => /\ \A i \in 1..Len(ls.out) : ls.out[i] # <<>> /\ ls.out[i][1] # "."
         /\ (ls.resp.status = 200 /\ ls.resp.json = "array")
              => /\ ls.rc = 0
                 /\ {ls.out[i] : i \in 1..Len(ls.out)}
                      = {n \in CatalogNames(ls.resp) : n # <<>> /\ n[1] # "."}
                 /\ \A i, j \in 1..Len(ls.out) :
                       i < j => str_lt(ls.out[i], ls.out[j])

C34_Witness ==
    /\ ls.pc = "done" /\ ls.rc = 0
    /\ ls.resp = Response(200, "array",
                          <<Item("dict", <<"y">>), Item("dict", <<".", "g">>),
                            Item("dict", <<"Z">>)>>)
    /\ ls.out = << <<"Z">>, <<"y">> >>


====
